---- MODULE Spec2Model ----
(***************************************************************************)
(* Model of dcf.py: a discounted-cash-flow valuation of a batch of         *)
(* tickers followed by a ranking by margin of safety.                      *)
(*                                                                         *)
(* Numbers.  Every value that reaches a division in dcf.py is a numpy      *)
(* float64 (the statement rows are read with .iloc[0] / .values[0], and    *)
(* line 116 calls .item() on the results, which only numpy scalars have),  *)
(* so a division by zero does not raise: it yields inf, -inf or nan.       *)
(* A number is modelled as a pair <<n, d>> in lowest terms with d >= 0:    *)
(* d > 0 is the rational n/d, <<1,0>> is +inf, <<-1,0>> is -inf and        *)
(* <<0,0>> is nan.  Rounding error of binary floating point and the sign   *)
(* of zero are not modelled.                                               *)
(***************************************************************************)
EXTENDS Integers, Sequences, FiniteSets, TLC

\* ------------------------------------------------------------------------
\* float64 arithmetic
\* ------------------------------------------------------------------------
Abs(x) == IF x < 0 THEN -x ELSE x

Sgn(x) == IF x > 0 THEN 1 ELSE IF x < 0 THEN -1 ELSE 0

RECURSIVE GCD(_, _)
GCD(a, b) == IF b = 0 THEN a ELSE GCD(b, a % b)

Float(n, d) ==
    IF d = 0 THEN <<Sgn(n), 0>>
    ELSE LET s == Sgn(d)
             g == GCD(Abs(n), Abs(d))
         IN  <<(s * n) \div g, (s * d) \div g>>

NaN == <<0, 0>>

PosInf == <<1, 0>>

NegInf == <<-1, 0>>

Zero == <<0, 1>>

One == <<1, 1>>

IsNaN(x) == x = NaN

IsFinite(x) == x[2] # 0

Neg(x) == <<-x[1], x[2]>>

Add(x, y) ==
    IF IsNaN(x) \/ IsNaN(y) THEN NaN
    ELSE IF x[2] = 0 /\ y[2] = 0 THEN (IF x = y THEN x ELSE NaN)
    ELSE IF x[2] = 0 THEN x
    ELSE IF y[2] = 0 THEN y
    ELSE LET g == GCD(x[2], y[2])
         IN  Float(x[1] * (y[2] \div g) + y[1] * (x[2] \div g),
                   (x[2] \div g) * y[2])

Sub(x, y) == Add(x, Neg(y))

Mul(x, y) ==
    IF IsNaN(x) \/ IsNaN(y) THEN NaN
    ELSE IF x[2] = 0 \/ y[2] = 0 THEN <<Sgn(x[1]) * Sgn(y[1]), 0>>
    ELSE LET g1 == GCD(Abs(x[1]), y[2])
             g2 == GCD(Abs(y[1]), x[2])
         IN  Float((x[1] \div g1) * (y[1] \div g2),
                   (x[2] \div g2) * (y[2] \div g1))

Div(x, y) ==
    IF IsNaN(x) \/ IsNaN(y) THEN NaN
    ELSE IF y[2] = 0 THEN (IF x[2] = 0 THEN NaN ELSE Zero)
    ELSE IF y[1] = 0 THEN <<Sgn(x[1]), 0>>
    ELSE Mul(x, <<Sgn(y[1]) * y[2], Abs(y[1])>>)

RECURSIVE Pow(_, _)
Pow(x, k) == IF k = 0 THEN One ELSE Mul(x, Pow(x, k - 1))

\* x < y as Python compares floats: false whenever nan is involved
Lt(x, y) ==
    /\ ~IsNaN(x)
    /\ ~IsNaN(y)
    /\ x # y
    /\ IF x[2] = 0 THEN x = NegInf
       ELSE IF y[2] = 0 THEN y = PosInf
       ELSE x[1] * y[2] < y[1] * x[2]

Le(x, y) == ~IsNaN(x) /\ ~IsNaN(y) /\ (x = y \/ Lt(x, y))

\* round(x, 2): nearest multiple of 1/100, ties to the even multiple
Round2(x) ==
    IF ~IsFinite(x) THEN x
    ELSE LET g == GCD(100, x[2])
             m == 100 \div g
             d == x[2] \div g
             whole == x[1] \div x[2]
             part == m * (x[1] % x[2])
             q == 100 * whole + (part \div d)
             r == part % d
             k == IF 2 * r < d THEN q
                  ELSE IF 2 * r > d THEN q + 1
                  ELSE IF q % 2 = 0 THEN q ELSE q + 1
         IN  Float(k, 100)

\* ------------------------------------------------------------------------
\* Bounds of the model
\* ------------------------------------------------------------------------
MaxYears == 2

MaxTickers == 3

\* ------------------------------------------------------------------------
\* The data provider (yfinance): one snapshot per ticker symbol
\* ------------------------------------------------------------------------
Num(n) == <<n, 1>>

\* `found` is false for a symbol the provider does not know; `missing`
\* holds the labels for which the provider has no row or key.
Base ==
    [found |-> TRUE, missing |-> {},
     currentPrice |-> Num(2), marketCap |-> Num(1), beta |-> Num(1),
     sharesOutstanding |-> Num(1), totalDebt |-> Num(1),
     interestExpense |-> Float(9, 10), taxProvision |-> Zero,
     pretaxIncome |-> Num(1), freeCashFlow |-> Num(1),
     cash |-> Num(1), growth |-> Float(1, 2)]

Symbols == {"AAA", "TIE", "NEG", "EQL", "DFT", "NDB", "NCS", "UNK"}

Provider(ticker) ==
    CASE ticker = "AAA" -> Base
      [] ticker = "TIE" -> Base
      \* discount rate 0, below the terminal growth rate
      [] ticker = "NEG" -> [Base EXCEPT !.interestExpense = Float(-1, 10),
                                        !.currentPrice = Num(1)]
      \* discount rate equal to the terminal growth rate
      [] ticker = "EQL" -> [Base EXCEPT !.interestExpense = Float(-1, 25),
                                        !.growth = Zero]
      \* beta # 1: the discount rate depends on the risk-free rate
      [] ticker = "DFT" -> [Base EXCEPT !.beta = Num(-1),
                                        !.marketCap = Num(50),
                                        !.totalDebt = Num(50),
                                        !.interestExpense = Num(21),
                                        !.growth = Float(1, 5),
                                        !.cash = Num(52)]
      \* a company without debt
      [] ticker = "NDB" -> [Base EXCEPT !.totalDebt = Zero,
                                        !.interestExpense = Zero]
      \* no "Cash And Cash Equivalents" row
      [] ticker = "NCS" -> [Base EXCEPT !.missing = {"cash"}]
      [] ticker = "UNK" -> [Base EXCEPT !.found = FALSE]

\* ^TNX regularMarketPreviousClose, in percent
TnxCloses == {Float(17, 4), Num(9)}

Has(stock, field) == stock.found /\ field \notin stock.missing

\* ------------------------------------------------------------------------
\* dcf.py, the functions
\* ------------------------------------------------------------------------
get_risk_free_rate(close) == Round2(Div(close, Num(100)))

get_market_return == Float(1, 10)

Raise(kind) == [err |-> kind]

\* the lookup guarded against a missing row only, without the isnan test
interest_expense_unguarded(stock) ==
    IF ~Has(stock, "interestExpense") THEN Zero ELSE stock.interestExpense

\* line 31-36: a missing or nan interest expense becomes 0
interest_expense_of(stock) ==
    IF ~Has(stock, "interestExpense") \/ IsNaN(stock.interestExpense)
    THEN Zero
    ELSE stock.interestExpense

get_wacc(stock, close) ==
    LET risk_free_rate == get_risk_free_rate(close)
        market_return == get_market_return
        cost_of_equity ==
            Add(risk_free_rate,
                Mul(stock.beta, Sub(market_return, risk_free_rate)))
        total_debt == stock.totalDebt
        interest_expense == interest_expense_of(stock)
        cost_of_debt == Div(interest_expense, total_debt)
        tax_rate == Div(stock.taxProvision, stock.pretaxIncome)
        market_cap == stock.marketCap
        total_value == Add(market_cap, total_debt)
        weight_equity == Div(market_cap, total_value)
        weight_debt == Div(total_debt, total_value)
        wacc == Add(Mul(weight_equity, cost_of_equity),
                    Mul(Mul(weight_debt, cost_of_debt), Sub(One, tax_rate)))
    IN  IF ~stock.found THEN Raise("NotFoundError")
        ELSE IF \E f \in {"beta", "totalDebt", "taxProvision",
                          "pretaxIncome", "marketCap"} : ~Has(stock, f)
        THEN Raise("KeyError")
        ELSE [err |-> "none",
              cost_of_equity |-> cost_of_equity,
              cost_of_debt |-> cost_of_debt,
              tax_rate |-> tax_rate,
              weight_equity |-> weight_equity,
              weight_debt |-> weight_debt,
              wacc |-> wacc]

get_free_cash_flow(stock) ==
    IF ~stock.found THEN Raise("NotFoundError")
    ELSE IF ~Has(stock, "freeCashFlow") THEN Raise("KeyError")
    ELSE [err |-> "none", val |-> stock.freeCashFlow]

get_discount_rate(stock, close) == get_wacc(stock, close)

TerminalGrowthRate == Float(3, 100)

get_growth_rate(stock, perpetual) ==
    IF perpetual THEN [err |-> "none", val |-> TerminalGrowthRate]
    ELSE IF ~Has(stock, "growth") THEN Raise("KeyError")
    ELSE [err |-> "none", val |-> stock.growth]

get_share_num(stock) ==
    IF ~Has(stock, "sharesOutstanding") THEN Raise("KeyError")
    ELSE [err |-> "none", val |-> stock.sharesOutstanding]

current_sure_value(stock) ==
    IF ~Has(stock, "currentPrice") THEN Raise("KeyError")
    ELSE [err |-> "none", val |-> stock.currentPrice]

\* line 69-75; the result keeps the locals of the call
get_terminal_value(stock, years, close) ==
    LET f == get_free_cash_flow(stock)
        g == get_growth_rate(stock, TRUE)
        d == get_discount_rate(stock, close)
    IN  IF f.err # "none" THEN Raise(f.err)
        ELSE IF d.err # "none" THEN Raise(d.err)
        ELSE [err |-> "none",
              fcf |-> f.val,
              growth_rate |-> g.val,
              discount_rate |-> d.wacc,
              val |-> Div(Mul(f.val, Pow(Add(One, g.val), years)),
                          Sub(d.wacc, g.val))]

\* the difference taken the other way round
margin_tuple_reversed(current_val, dcf_val) ==
    <<current_val,
      Round2(dcf_val),
      Round2(Div(Sub(current_val, dcf_val), current_val))>>

\* line 116: the tuple calculate_margin returns
margin_tuple(current_val, dcf_val) ==
    <<current_val,
      Round2(dcf_val),
      Round2(Div(Sub(dcf_val, current_val), current_val))>>

\* ------------------------------------------------------------------------
\* sorted(dcf, key=lambda x: x[1][2], reverse=True), line 134
\* (CPython list sort for fewer than 64 elements: reverse, find the
\* leading run, binary insertion, reverse; elements compared with < only)
\* ------------------------------------------------------------------------
key(x) == x[2][3]

ISLT(x, y) == Lt(key(x), key(y))

reverse_slice(s) == [k \in 1..Len(s) |-> s[Len(s) + 1 - k]]

RECURSIVE count_run(_, _, _)
count_run(s, n, descending) ==
    IF n = Len(s) THEN n
    ELSE IF descending
         THEN IF ISLT(s[n + 1], s[n]) THEN count_run(s, n + 1, descending)
              ELSE n
         ELSE IF ISLT(s[n + 1], s[n]) THEN n
              ELSE count_run(s, n + 1, descending)

RECURSIVE bisect(_, _, _, _)
bisect(s, pivot, l, r) ==
    IF l >= r THEN l
    ELSE LET p == l + ((r - l) \div 2)
         IN  IF ISLT(pivot, s[p]) THEN bisect(s, pivot, l, p)
             ELSE bisect(s, pivot, p + 1, r)

RECURSIVE binarysort(_, _)
binarysort(s, start) ==
    IF start > Len(s) THEN s
    ELSE LET pivot == s[start]
             l == bisect(s, pivot, 1, start)
             moved == [k \in 1..Len(s) |->
                         IF k < l THEN s[k]
                         ELSE IF k = l THEN pivot
                         ELSE IF k <= start THEN s[k - 1]
                         ELSE s[k]]
         IN  binarysort(moved, start + 1)

listsort(s) ==
    IF Len(s) < 2 THEN s
    ELSE LET descending == ISLT(s[2], s[1])
             n == count_run(s, 2, descending)
             run == IF descending
                    THEN [k \in 1..Len(s) |->
                            IF k <= n THEN s[n + 1 - k] ELSE s[k]]
                    ELSE s
         IN  binarysort(run, n + 1)

sorted(s) == reverse_slice(listsort(reverse_slice(s)))

\* ------------------------------------------------------------------------
\* State
\* ------------------------------------------------------------------------
VARIABLES
    args,        \* argparse result: years and tickers
    tnx,         \* what the provider reports for ^TNX at this moment
    pc,          \* position of the main program
    idx,         \* position of the list comprehension of line 133
    frame,       \* locals of the running (or last) compute_dcf call
    dcf,         \* the list built at line 133
    sorted_dcf,  \* the ranked table, line 134-139
    err,         \* the exception that ended the process, if any
    unit         \* a single call of a function, for the function-level specs

vars == <<args, tnx, pc, idx, frame, dcf, sorted_dcf, err, unit>>

NoTerminal == [err |-> "unset"]

NoFrame ==
    [ticker |-> "", fcf |-> Zero, discount_rate |-> Zero,
     growth_rate |-> Zero, dcf_value |-> Zero, year |-> 1, rows |-> <<>>,
     terminal |-> NoTerminal, returned |-> FALSE, ret |-> Zero]

RECURSIVE SeqsUpTo(_, _)
SeqsUpTo(S, n) ==
    IF n = 0 THEN {<<>>}
    ELSE LET shorter == SeqsUpTo(S, n - 1)
         IN  shorter \cup {Append(q, x) : q \in shorter, x \in S}

InitialClose == Float(17, 4)

Idle == [fn |-> "none"]

Init ==
    /\ args \in [years : 0..MaxYears, tickers : SeqsUpTo(Symbols, MaxTickers)]
    /\ tnx = InitialClose
    /\ pc = "call"
    /\ idx = 1
    /\ frame = NoFrame
    /\ dcf = <<>>
    /\ sorted_dcf = <<>>
    /\ err = "none"
    /\ unit = Idle

\* an uncaught exception: the traceback is printed and the process ends
Abort(kind) ==
    /\ pc' = "aborted"
    /\ err' = kind
    /\ UNCHANGED <<args, tnx, idx, frame, dcf, sorted_dcf, unit>>

\* range(1, years)
in_range_exclusive(year, years) == year < years

\* line 89: range(1, years + 1)
first_year == 1

in_range(year, years) == year <= years

\* the accumulator left as the previous valuation ended
carried_dcf_value(previous) == previous.dcf_value

\* line 85
initial_dcf_value(previous) == Zero

\* line 133 entering calculate_margin, line 113-114, compute_dcf line 78-88
Call ==
    /\ pc = "call"
    /\ idx <= Len(args.tickers)
    /\ LET ticker == args.tickers[idx]
           stock == Provider(ticker)
           f == get_free_cash_flow(stock)
           d == get_discount_rate(stock, tnx)
           g == get_growth_rate(stock, FALSE)
       IN  IF f.err # "none" THEN Abort(f.err)
           ELSE IF d.err # "none" THEN Abort(d.err)
           ELSE IF g.err # "none" THEN Abort(g.err)
           ELSE /\ frame' = [ticker |-> ticker,
                             fcf |-> f.val,
                             discount_rate |-> d.wacc,
                             growth_rate |-> g.val,
                             dcf_value |-> initial_dcf_value(frame),
                             year |-> first_year,
                             rows |-> <<>>,
                             terminal |-> NoTerminal,
                             returned |-> FALSE,
                             ret |-> Zero]
                /\ pc' = "loop"
                /\ UNCHANGED <<args, tnx, idx, dcf, sorted_dcf, err, unit>>

\* line 90
fcf_year_of(fcf, growth_rate, year) ==
    Mul(fcf, Pow(Add(One, growth_rate), year))

\* line 92
discounted(fcf_year, discount_rate, year) ==
    Div(fcf_year, Pow(Add(One, discount_rate), year))

\* line 89-92, one iteration
LoopBody ==
    /\ pc = "loop"
    /\ in_range(frame.year, args.years)
    /\ LET fcf_year == fcf_year_of(frame.fcf, frame.growth_rate, frame.year)
       IN  frame' = [frame EXCEPT
                       !.rows = Append(@, <<frame.year, fcf_year>>),
                       !.dcf_value =
                           Add(@, discounted(fcf_year, frame.discount_rate,
                                             frame.year)),
                       !.year = @ + 1]
    /\ UNCHANGED <<args, tnx, pc, idx, dcf, sorted_dcf, err, unit>>

\* line 95
add_terminal(dcf_value, terminal_value) == Add(dcf_value, terminal_value)

\* line 93-95
Terminal ==
    /\ pc = "loop"
    /\ ~in_range(frame.year, args.years)
    /\ LET t == get_terminal_value(Provider(frame.ticker), args.years, tnx)
       IN  IF t.err # "none" THEN Abort(t.err)
           ELSE /\ frame' = [frame EXCEPT
                               !.terminal = t,
                               !.dcf_value = add_terminal(@, t.val)]
                /\ pc' = "finish"
                /\ UNCHANGED <<args, tnx, idx, dcf, sorted_dcf, err, unit>>

\* line 96-106, then calculate_margin line 115-116 and the append of line 133
Finish ==
    /\ pc = "finish"
    /\ LET stock == Provider(frame.ticker)
           share_num == get_share_num(stock)
           current_val == current_sure_value(stock)
           dcf_value == Sub(Add(frame.dcf_value, stock.cash), stock.totalDebt)
           dcf_value_per_share == Div(dcf_value, share_num.val)
       IN  IF ~Has(stock, "cash") \/ ~Has(stock, "totalDebt")
           THEN Abort("KeyError")
           ELSE IF share_num.err # "none" THEN Abort(share_num.err)
           ELSE IF current_val.err # "none" THEN Abort(current_val.err)
           ELSE /\ frame' = [frame EXCEPT !.dcf_value = dcf_value,
                                          !.returned = TRUE,
                                          !.ret = dcf_value_per_share]
                /\ dcf' = Append(dcf,
                                 <<frame.ticker,
                                   margin_tuple(current_val.val,
                                                dcf_value_per_share)>>)
                /\ idx' = idx + 1
                /\ pc' = "call"
                /\ UNCHANGED <<args, tnx, sorted_dcf, err, unit>>

\* line 134-140
Rank ==
    /\ pc = "call"
    /\ idx > Len(args.tickers)
    /\ sorted_dcf' = sorted(dcf)
    /\ pc' = "done"
    /\ UNCHANGED <<args, tnx, idx, frame, dcf, err, unit>>

Next == Call \/ LoopBody \/ Terminal \/ Finish \/ Rank

Spec == Init /\ [][Next]_vars

\* The provider's quote for ^TNX changes.  get_risk_free_rate builds a new
\* yf.Ticker("^TNX") on every call (line 7), so each call sees the quote
\* of its own moment.
Drift ==
    /\ pc \in {"call", "loop", "finish"}
    /\ \E close \in TnxCloses \ {tnx} : tnx' = close
    /\ UNCHANGED <<args, pc, idx, frame, dcf, sorted_dcf, err, unit>>

NextDrift == Call \/ LoopBody \/ Terminal \/ Finish \/ Rank \/ Drift

SpecDrift == Init /\ [][NextDrift]_vars

\* ------------------------------------------------------------------------
\* Function-level specification: one call of calculate_margin's last line
\* or of get_wacc, on inputs drawn from bounded sets
\* ------------------------------------------------------------------------
CurrentVals == {Num(1), Num(2), Float(1, 2)}

DcfVals ==
    {NaN, PosInf, NegInf}
        \cup {Float(n, d) : n \in -2..5, d \in {1, 2}}
        \cup {Float(1001, 1000), Float(999, 1000), Float(201, 200),
              Float(199, 200), Float(203, 200), Float(2001, 1000),
              Float(101, 100), Float(99, 100)}

WaccStocks ==
    {[Base EXCEPT !.beta = b, !.marketCap = mc, !.totalDebt = td,
                  !.interestExpense = ie, !.taxProvision = tp,
                  !.pretaxIncome = pi, !.missing = ms] :
        b \in {Num(0), Num(1), Num(-1)},
        mc \in {Num(0), Num(1), Num(3)},
        td \in {Num(0), Num(1)},
        ie \in {Num(0), Float(1, 10), Float(-1, 10), NaN},
        tp \in {Num(0), Float(1, 2), Num(2), Num(-1)},
        pi \in {Num(1), Num(2)},
        ms \in {{}, {"interestExpense"}, {"beta"}, {"totalDebt"},
                {"taxProvision"}, {"pretaxIncome"}, {"marketCap"}}}

InitUnit ==
    /\ args = [years |-> 0, tickers |-> <<>>]
    /\ tnx = InitialClose
    /\ pc = "unit"
    /\ idx = 1
    /\ frame = NoFrame
    /\ dcf = <<>>
    /\ sorted_dcf = <<>>
    /\ err = "none"
    /\ \/ unit \in [fn : {"calculate_margin"}, st : {"called"},
                    current_val : CurrentVals, dcf_val : DcfVals]
       \/ unit \in [fn : {"get_wacc"}, st : {"called"},
                    stock : WaccStocks, close : TnxCloses]

\* line 116
ReturnMargin ==
    /\ pc = "unit"
    /\ unit.fn = "calculate_margin"
    /\ unit.st = "called"
    /\ unit' = [fn |-> unit.fn, st |-> "returned",
                current_val |-> unit.current_val, dcf_val |-> unit.dcf_val,
                out |-> margin_tuple(unit.current_val, unit.dcf_val)]
    /\ UNCHANGED <<args, tnx, pc, idx, frame, dcf, sorted_dcf, err>>

\* line 18-52
ReturnWacc ==
    /\ pc = "unit"
    /\ unit.fn = "get_wacc"
    /\ unit.st = "called"
    /\ unit' = [fn |-> unit.fn, st |-> "returned",
                stock |-> unit.stock, close |-> unit.close,
                out |-> get_wacc(unit.stock, unit.close)]
    /\ UNCHANGED <<args, tnx, pc, idx, frame, dcf, sorted_dcf, err>>

NextUnit == ReturnMargin \/ ReturnWacc

SpecUnit == InitUnit /\ [][NextUnit]_vars

\* ------------------------------------------------------------------------
\* Properties
\* ------------------------------------------------------------------------
Raises(ticker) ==
    LET stock == Provider(ticker)
    IN  \/ get_free_cash_flow(stock).err # "none"
        \/ get_wacc(stock, InitialClose).err # "none"
        \/ get_growth_rate(stock, FALSE).err # "none"
        \/ ~Has(stock, "cash")
        \/ get_share_num(stock).err # "none"
        \/ current_sure_value(stock).err # "none"

Tickers(table) == [k \in 1..Len(table) |-> table[k][1]]

NotRaising(ticker) == ~Raises(ticker)

\* C1: a fetch or compute failure on one ticker is scoped to that ticker:
\* the process is never ended by it, and the ranked table, once printed,
\* holds exactly the tickers of the batch that did not fail.
C1_FailureScoped ==
    /\ pc # "aborted"
    /\ pc = "done" =>
         Tickers(dcf) = SelectSeq(args.tickers, NotRaising)

Descending(table) ==
    \A k \in 1..(Len(table) - 1) : Le(key(table[k + 1]), key(table[k]))

Stable(table, input) ==
    \A k \in 1..Len(input) :
        LET SameMargin(x) == key(x) = key(input[k])
        IN  SelectSeq(table, SameMargin) = SelectSeq(input, SameMargin)

\* C2: the ranked output is ordered by margin descending (every adjacent
\* pair has margin[i] >= margin[i+1]) and rows of equal margin keep the
\* relative order of the input list.
C2_RankedDescendingStable ==
    pc = "done" => Descending(sorted_dcf) /\ Stable(sorted_dcf, dcf)

\* C3: a ticker whose totalDebt is 0 gets no WACC value (the cost-of-debt
\* division raises), so its valuation never proceeds past get_wacc and it
\* has no row in the list that is ranked.
C3_ZeroDebtFails ==
    /\ pc \in {"loop", "finish"} =>
         Provider(frame.ticker).totalDebt # Zero
    /\ \A k \in 1..Len(dcf) : Provider(dcf[k][1]).totalDebt # Zero

MarginReturned == unit.fn = "calculate_margin" /\ unit.st = "returned"

\* C4 as stated: for currentValue > 0 the rounded margin is positive when
\* intrinsic > current, negative when intrinsic < current, zero when equal.
C4_MarginSignStrict ==
    MarginReturned /\ Lt(Zero, unit.current_val) =>
        /\ Lt(unit.current_val, unit.dcf_val) => Lt(Zero, unit.out[3])
        /\ Lt(unit.dcf_val, unit.current_val) => Lt(unit.out[3], Zero)
        /\ unit.dcf_val = unit.current_val => unit.out[3] = Zero

Percent(x) == Div(x, Num(100))

\* C4 amended: for currentValue > 0 the rounded margin never has the sign
\* opposite to (intrinsic - current): it is >= 0 when intrinsic > current,
\* <= 0 when intrinsic < current, 0 when they are equal; and it has the
\* same strict sign whenever they differ by at least 1% of current.
C4_MarginSignWeak ==
    MarginReturned /\ Lt(Zero, unit.current_val) =>
        LET diff == Sub(unit.dcf_val, unit.current_val)
            one_percent == Percent(unit.current_val)
        IN  /\ Lt(unit.current_val, unit.dcf_val) => Le(Zero, unit.out[3])
            /\ Lt(unit.dcf_val, unit.current_val) => Le(unit.out[3], Zero)
            /\ unit.dcf_val = unit.current_val => unit.out[3] = Zero
            /\ Le(one_percent, diff) => Lt(Zero, unit.out[3])
            /\ Le(diff, Neg(one_percent)) => Lt(unit.out[3], Zero)

\* an intrinsic value above the price whose margin rounds to 0
C4_Witness ==
    /\ MarginReturned
    /\ Lt(unit.current_val, unit.dcf_val)
    /\ IsFinite(unit.dcf_val)
    /\ unit.out[3] = Zero

WaccReturned ==
    unit.fn = "get_wacc" /\ unit.st = "returned" /\ unit.out.err = "none"

ValidSnapshot(stock) ==
    /\ Le(Zero, stock.marketCap)
    /\ Le(Zero, stock.totalDebt)
    /\ stock.pretaxIncome # Zero

\* C5: for every valid snapshot (marketCap >= 0, totalDebt >= 0) the
\* capital weights get_wacc computes satisfy weightEquity + weightDebt = 1.
C5_WeightsSumToOne ==
    WaccReturned /\ ValidSnapshot(unit.stock) =>
        Add(unit.out.weight_equity, unit.out.weight_debt) = One

\* C6: for every valid snapshot with cost of equity >= 0 and after-tax
\* cost of debt >= 0, the WACC lies between the smaller and the larger of
\* the two.
C6_WaccConvex ==
    WaccReturned /\ ValidSnapshot(unit.stock) =>
        LET coe == unit.out.cost_of_equity
            atcod == Mul(unit.out.cost_of_debt, Sub(One, unit.out.tax_rate))
            lo == IF Lt(atcod, coe) THEN atcod ELSE coe
            hi == IF Lt(atcod, coe) THEN coe ELSE atcod
        IN  Le(Zero, coe) /\ Le(Zero, atcod) =>
                Le(lo, unit.out.wacc) /\ Le(unit.out.wacc, hi)

\* C7: two valuations of the same snapshot under the same configuration
\* give the same (currentValue, intrinsicValuePerShare, margin): nothing is
\* carried from one valuation of the batch to the next.
C7_Deterministic ==
    \A j, k \in 1..Len(dcf) :
        Provider(dcf[j][1]) = Provider(dcf[k][1]) => dcf[j][2] = dcf[k][2]

\* the same ticker valued twice in one batch, after another valuation
C7_Witness ==
    /\ pc = "done"
    /\ Len(dcf) = 3
    /\ dcf[1][1] # dcf[2][1]
    /\ dcf[1][1] = dcf[3][1]
    /\ IsFinite(key(dcf[1]))

OtherRequired ==
    {"beta", "totalDebt", "taxProvision", "pretaxIncome", "marketCap"}

WithInterestExpenseZero(stock) ==
    [stock EXCEPT !.interestExpense = Zero,
                  !.missing = @ \ {"interestExpense"}]

C9_SnapshotStable ==
    frame.terminal.err = "none" =>
        /\ frame.terminal.discount_rate = frame.discount_rate
        /\ frame.terminal.fcf = frame.fcf

RECURSIVE SumDiscounted(_, _, _, _)
SumDiscounted(fcf, g, r, n) ==
    IF n = 0 THEN Zero
    ELSE Add(SumDiscounted(fcf, g, r, n - 1),
             Div(Mul(fcf, Pow(Add(One, g), n)), Pow(Add(One, r), n)))

Gordon(fcf, tg, r, n) == Div(Mul(fcf, Pow(Add(One, tg), n)), Sub(r, tg))

\* C10: for years > 0, compute_dcf emits the rows (year, freeCashFlow *
\* (1 + growth)^year) for year = 1..years in order and returns
\* (sum of the discounted rows + terminalValue + cash - totalDebt) /
\* sharesOutstanding, with terminalValue = freeCashFlow * (1 + 0.03)^years /
\* (discountRate - 0.03) added undiscounted and unclamped.
C10_ComputeDcf ==
    frame.returned /\ args.years > 0 =>
        LET stock == Provider(frame.ticker)
            n == args.years
            r == get_wacc(stock, tnx).wacc
            tv == Gordon(stock.freeCashFlow, TerminalGrowthRate, r, n)
            total == Add(SumDiscounted(stock.freeCashFlow, stock.growth, r, n),
                         tv)
        IN  /\ frame.rows =
                 [y \in 1..n |->
                    <<y, Mul(stock.freeCashFlow,
                             Pow(Add(One, stock.growth), y))>>]
            /\ frame.terminal.val = tv
            /\ frame.ret = Div(Sub(Add(total, stock.cash), stock.totalDebt),
                               stock.sharesOutstanding)

\* a valuation over the longest horizon whose discount rate is below the
\* terminal growth rate: the terminal value is negative and kept
C10_Witness ==
    /\ frame.returned
    /\ args.years = MaxYears
    /\ Len(frame.rows) = MaxYears
    /\ Lt(frame.discount_rate, TerminalGrowthRate)
    /\ Lt(frame.terminal.val, Zero)
    /\ IsFinite(frame.ret)

====
